---- MODULE Spec2Model ----
(***************************************************************************)
(* Process supervisor of the STT daemon (src-tauri/src/main.rs).           *)
(*                                                                         *)
(* One Mutex<Option<Child>> slot, three commands (start_stt_daemon,        *)
(* stop_stt_daemon, get_stt_status) that run as concurrent tasks, invoked  *)
(* from the tray menu or from the front end, and the tray "quit" handler.  *)
(* Every command is split at the points where another thread can be        *)
(* observed: waiting for the lock, each statement inside the critical      *)
(* section, the return (guard dropped), and, for tray tasks, the two menu  *)
(* updates and the broadcast that follow the return.                       *)
(***************************************************************************)
EXTENDS Integers, Sequences, FiniteSets, TLC

\* ---------------------------------------------------------------- bounds
\* Number of command invocations (tray clicks and front-end calls) in a run.
MaxTasks == 3

Tasks == 1..MaxTasks
\* A process id per possible spawn: every invocation spawns at most once.
Pids == 1..MaxTasks
\* Option::None of the slot and of the locals holding a Child.
None == 0
\* Lock owner used by the tray "quit" handler (runs on the event thread).
QuitId == MaxTasks + 1

\* ---------------------------------------------------------------- messages
MsgStarted == "STT daemon started successfully"
MsgAlreadyRunning == "STT daemon is already running"
MsgSpawnPrefix == "Failed to start STT daemon: "
MsgStopped == "STT daemon stopped successfully"
MsgNotRunning == "STT daemon is not running"
MsgKillPrefix == "Failed to stop STT daemon: "

\* io::Error texts the OS can hand back from spawn() and kill().
SpawnErrors == {"No such file or directory (os error 2)", "Permission denied (os error 13)"}
KillErrors == {"No such process (os error 3)", "Operation not permitted (os error 1)"}

\* Result<_, String>
Ok(v) == <<"Ok", v>>
Err(e) == <<"Err", e>>
NoResult == <<"Pending">>
IsErr(r) == r[1] = "Err"
\* format!("Failed to start STT daemon: {}", e)
SpawnFailure(e) == Err(MsgSpawnPrefix \o e)
\* format!("Failed to stop STT daemon: {}", e)
TerminationFailure(e) == Err(MsgKillPrefix \o e)

VARIABLES
  stt_process,  \* AppState.stt_process: None or the pid of the held Child
  lock,         \* owner of the Mutex: 0 (free), a task, or QuitId
  pc,           \* position of every task
  op,           \* command a task runs: "start", "stop", "status"
  origin,       \* "tray" or "frontend"
  child,        \* a task's local Child (spawned, or taken out of the slot)
  result,       \* value returned by the task's command
  proc,         \* OS state of every daemon process: "unspawned", "alive", "dead"
  killReq,      \* number of kill() calls issued to every process
  menu,         \* enabled flag of the tray items start_stt and stop_stt
  broadcasts,   \* payloads of the stt_status events emitted so far
  quitPc,       \* position of the tray "quit" handler
  quitChild,    \* the Child the quit handler took out of the slot
  last          \* the latest command to leave its critical section: its op and
                \* result, and whether a task was waiting for the lock then

vars == <<stt_process, lock, pc, op, origin, child, result, proc, killReq,
          menu, broadcasts, quitPc, quitChild, last>>

\* Mutant of Exited: the quit handler returns without ending the process, so
\* the other threads keep running.
ExitedNever == FALSE

\* std::process::exit(0) has run: no thread of the application runs any more.
Exited == quitPc = "exited"

\* Option::is_some
IsSome(slot) == slot # None

\* Process ids not handed out yet.
FreshPids == {p \in Pids : proc[p] = "unspawned"}
NewPid == CHOOSE p \in FreshPids : \A q \in FreshPids : p <= q

\* Tasks not invoked yet; ids are handed out in invocation order.
IdleTasks == {t \in Tasks : pc[t] = "idle"}
NextTask == CHOOSE t \in IdleTasks : \A u \in IdleTasks : t <= u

\* No command has left its critical section yet.
NoLast == [op |-> "none", result |-> NoResult, contended |-> FALSE]

Init ==
  /\ stt_process = None
  /\ lock = 0
  /\ pc = [t \in Tasks |-> "idle"]
  /\ op = [t \in Tasks |-> "none"]
  /\ origin = [t \in Tasks |-> "none"]
  /\ child = [t \in Tasks |-> None]
  /\ result = [t \in Tasks |-> NoResult]
  /\ proc = [p \in Pids |-> "unspawned"]
  /\ killReq = [p \in Pids |-> 0]
  /\ menu = [start_stt |-> TRUE, stop_stt |-> TRUE]
  /\ broadcasts = <<>>
  /\ quitPc = "idle"
  /\ quitChild = None
  /\ last = NoLast

\* ---------------------------------------------------------------- invocation
\* A click on an enabled tray item start_stt / stop_stt: the handler spawns
\* the async task and returns.  The handler runs on the event thread, so no
\* click is handled while the quit handler is running on it.
TrayClick(o) ==
  /\ ~Exited
  /\ quitPc = "idle"
  /\ o \in {"start", "stop"}
  /\ IdleTasks # {}
  /\ IF o = "start" THEN menu.start_stt ELSE menu.stop_stt
  /\ pc' = [pc EXCEPT ![NextTask] = "lock"]
  /\ op' = [op EXCEPT ![NextTask] = o]
  /\ origin' = [origin EXCEPT ![NextTask] = "tray"]
  /\ UNCHANGED <<stt_process, lock, child, result, proc, killReq, menu,
                 broadcasts, quitPc, quitChild, last>>

\* The front end invokes one of the three registered commands.
Invoke(o) ==
  /\ ~Exited
  /\ o \in {"start", "stop", "status"}
  /\ IdleTasks # {}
  /\ pc' = [pc EXCEPT ![NextTask] = "lock"]
  /\ op' = [op EXCEPT ![NextTask] = o]
  /\ origin' = [origin EXCEPT ![NextTask] = "frontend"]
  /\ UNCHANGED <<stt_process, lock, child, result, proc, killReq, menu,
                 broadcasts, quitPc, quitChild, last>>

\* Mutant of Lock: the slot is entered without waiting for the Mutex.
LockNoExclusion(t) ==
  /\ ~Exited
  /\ pc[t] = "lock"
  /\ lock' = t
  /\ pc' = [pc EXCEPT ![t] = CASE op[t] = "start" -> "check"
                               [] op[t] = "stop" -> "take"
                               [] OTHER -> "read"]
  /\ UNCHANGED <<stt_process, op, origin, child, result, proc, killReq, menu,
                 broadcasts, quitPc, quitChild, last>>

\* state.stt_process.lock().unwrap() of the three commands
Lock(t) ==
  /\ ~Exited
  /\ pc[t] = "lock"
  /\ lock = 0
  /\ lock' = t
  /\ pc' = [pc EXCEPT ![t] = CASE op[t] = "start" -> "check"
                               [] op[t] = "stop" -> "take"
                               [] OTHER -> "read"]
  /\ UNCHANGED <<stt_process, op, origin, child, result, proc, killReq, menu,
                 broadcasts, quitPc, quitChild, last>>

\* ---------------------------------------------------------------- OS calls
\* Command::spawn() succeeded: the OS created a process.
Spawned(p) == [proc EXCEPT ![p] = "alive"]

\* Child::kill() on process p.  Every call is a kill request; a call that
\* returns Ok ends a process that was still alive, a call that errors leaves
\* the process as it was.
Killed(p, ok) == IF ok /\ proc[p] = "alive" THEN [proc EXCEPT ![p] = "dead"] ELSE proc

\* ---------------------------------------------------------------- start_stt_daemon
\* Mutant of StartCheck: the is_some() test is missing.
StartCheckNoGuard(t) ==
  /\ ~Exited
  /\ pc[t] = "check"
  /\ pc' = [pc EXCEPT ![t] = "spawn"]
  /\ UNCHANGED <<stt_process, lock, op, origin, child, result, proc, killReq,
                 menu, broadcasts, quitPc, quitChild, last>>

\* Mutant of StartCheck: the test is inverted (is_none() instead of is_some()).
StartCheckInverted(t) ==
  /\ ~Exited
  /\ pc[t] = "check"
  /\ IF ~IsSome(stt_process)
       THEN /\ result' = [result EXCEPT ![t] = Err(MsgAlreadyRunning)]
            /\ pc' = [pc EXCEPT ![t] = "unlock"]
       ELSE /\ pc' = [pc EXCEPT ![t] = "spawn"]
            /\ UNCHANGED result
  /\ UNCHANGED <<stt_process, lock, op, origin, child, proc, killReq, menu,
                 broadcasts, quitPc, quitChild, last>>

\* if process_guard.is_some() { return Err("STT daemon is already running") }
StartCheck(t) ==
  /\ ~Exited
  /\ pc[t] = "check"
  /\ IF IsSome(stt_process)
       THEN /\ result' = [result EXCEPT ![t] = Err(MsgAlreadyRunning)]
            /\ pc' = [pc EXCEPT ![t] = "unlock"]
       ELSE /\ pc' = [pc EXCEPT ![t] = "spawn"]
            /\ UNCHANGED result
  /\ UNCHANGED <<stt_process, lock, op, origin, child, proc, killReq, menu,
                 broadcasts, quitPc, quitChild, last>>

\* Mutant of StartSpawn: the Err arm reports success.
StartSpawnSwallow(t) ==
  /\ ~Exited
  /\ pc[t] = "spawn"
  /\ \/ /\ child' = [child EXCEPT ![t] = NewPid]
        /\ proc' = Spawned(NewPid)
        /\ pc' = [pc EXCEPT ![t] = "store"]
        /\ UNCHANGED result
     \/ /\ result' = [result EXCEPT ![t] = Ok(MsgStarted)]
        /\ pc' = [pc EXCEPT ![t] = "unlock"]
        /\ UNCHANGED <<child, proc>>
  /\ UNCHANGED <<stt_process, lock, op, origin, killReq, menu, broadcasts,
                 quitPc, quitChild, last>>

\* match Command::new("python3")...spawn(): Ok(child), or Err(e) => Err(format!(..))
StartSpawn(t) ==
  /\ ~Exited
  /\ pc[t] = "spawn"
  /\ \/ /\ child' = [child EXCEPT ![t] = NewPid]
        /\ proc' = Spawned(NewPid)
        /\ pc' = [pc EXCEPT ![t] = "store"]
        /\ UNCHANGED result
     \/ \E e \in SpawnErrors :
          /\ result' = [result EXCEPT ![t] = SpawnFailure(e)]
          /\ pc' = [pc EXCEPT ![t] = "unlock"]
          /\ UNCHANGED <<child, proc>>
  /\ UNCHANGED <<stt_process, lock, op, origin, killReq, menu, broadcasts,
                 quitPc, quitChild, last>>

\* Mutant of StartStore: the child is dropped instead of stored.
StartStoreForgets(t) ==
  /\ ~Exited
  /\ pc[t] = "store"
  /\ child' = [child EXCEPT ![t] = None]
  /\ result' = [result EXCEPT ![t] = Ok(MsgStarted)]
  /\ pc' = [pc EXCEPT ![t] = "unlock"]
  /\ UNCHANGED <<stt_process, lock, op, origin, proc, killReq, menu,
                 broadcasts, quitPc, quitChild, last>>

\* *process_guard = Some(child); Ok("STT daemon started successfully")
StartStore(t) ==
  /\ ~Exited
  /\ pc[t] = "store"
  /\ stt_process' = child[t]
  /\ child' = [child EXCEPT ![t] = None]
  /\ result' = [result EXCEPT ![t] = Ok(MsgStarted)]
  /\ pc' = [pc EXCEPT ![t] = "unlock"]
  /\ UNCHANGED <<lock, op, origin, proc, killReq, menu, broadcasts, quitPc,
                 quitChild, last>>

\* ---------------------------------------------------------------- stop_stt_daemon
\* Mutant of StopTake: as_mut() instead of take(), the slot keeps the handle.
StopTakeKeeps(t) ==
  /\ ~Exited
  /\ pc[t] = "take"
  /\ IF IsSome(stt_process)
       THEN /\ child' = [child EXCEPT ![t] = stt_process]
            /\ pc' = [pc EXCEPT ![t] = "kill"]
            /\ UNCHANGED result
       ELSE /\ result' = [result EXCEPT ![t] = Err(MsgNotRunning)]
            /\ pc' = [pc EXCEPT ![t] = "unlock"]
            /\ UNCHANGED child
  /\ UNCHANGED <<stt_process, lock, op, origin, proc, killReq, menu,
                 broadcasts, quitPc, quitChild, last>>

\* Mutant of StopTake: an empty slot is reported as a successful stop.
StopTakeLenient(t) ==
  /\ ~Exited
  /\ pc[t] = "take"
  /\ stt_process' = None
  /\ IF IsSome(stt_process)
       THEN /\ child' = [child EXCEPT ![t] = stt_process]
            /\ pc' = [pc EXCEPT ![t] = "kill"]
            /\ UNCHANGED result
       ELSE /\ result' = [result EXCEPT ![t] = Ok(MsgStopped)]
            /\ pc' = [pc EXCEPT ![t] = "unlock"]
            /\ UNCHANGED child
  /\ UNCHANGED <<lock, op, origin, proc, killReq, menu, broadcasts, quitPc,
                 quitChild, last>>

\* if let Some(mut child) = process_guard.take() ... else Err("... not running")
StopTake(t) ==
  /\ ~Exited
  /\ pc[t] = "take"
  /\ stt_process' = None
  /\ IF IsSome(stt_process)
       THEN /\ child' = [child EXCEPT ![t] = stt_process]
            /\ pc' = [pc EXCEPT ![t] = "kill"]
            /\ UNCHANGED result
       ELSE /\ result' = [result EXCEPT ![t] = Err(MsgNotRunning)]
            /\ pc' = [pc EXCEPT ![t] = "unlock"]
            /\ UNCHANGED child
  /\ UNCHANGED <<lock, op, origin, proc, killReq, menu, broadcasts, quitPc,
                 quitChild, last>>

\* Mutant of StopKill: a failed kill puts the handle back into the slot.
StopKillRestores(t) ==
  /\ ~Exited
  /\ pc[t] = "kill"
  /\ killReq' = [killReq EXCEPT ![child[t]] = @ + 1]
  /\ \/ /\ proc' = Killed(child[t], TRUE)
        /\ result' = [result EXCEPT ![t] = Ok(MsgStopped)]
        /\ UNCHANGED stt_process
     \/ \E e \in KillErrors :
          /\ proc' = Killed(child[t], FALSE)
          /\ result' = [result EXCEPT ![t] = TerminationFailure(e)]
          /\ stt_process' = child[t]
  /\ pc' = [pc EXCEPT ![t] = "unlock"]
  /\ UNCHANGED <<lock, op, origin, child, menu, broadcasts, quitPc, quitChild,
                 last>>

\* match child.kill() { Ok(_) => Ok("... stopped successfully"), Err(e) => Err(format!(..)) }
StopKill(t) ==
  /\ ~Exited
  /\ pc[t] = "kill"
  /\ killReq' = [killReq EXCEPT ![child[t]] = @ + 1]
  /\ \/ /\ proc' = Killed(child[t], TRUE)
        /\ result' = [result EXCEPT ![t] = Ok(MsgStopped)]
     \/ \E e \in KillErrors :
          /\ proc' = Killed(child[t], FALSE)
          /\ result' = [result EXCEPT ![t] = TerminationFailure(e)]
  /\ pc' = [pc EXCEPT ![t] = "unlock"]
  /\ UNCHANGED <<stt_process, lock, op, origin, child, menu, broadcasts,
                 quitPc, quitChild, last>>

\* ---------------------------------------------------------------- get_stt_status
\* Mutant of StatusRead: the answer also asks whether the process still runs.
StatusReadLiveness(t) ==
  /\ ~Exited
  /\ pc[t] = "read"
  /\ result' = [result EXCEPT ![t] =
                  Ok(IsSome(stt_process) /\ proc[stt_process] = "alive")]
  /\ pc' = [pc EXCEPT ![t] = "unlock"]
  /\ UNCHANGED <<stt_process, lock, op, origin, child, proc, killReq, menu,
                 broadcasts, quitPc, quitChild, last>>

\* Ok(process_guard.is_some())
StatusRead(t) ==
  /\ ~Exited
  /\ pc[t] = "read"
  /\ result' = [result EXCEPT ![t] = Ok(IsSome(stt_process))]
  /\ pc' = [pc EXCEPT ![t] = "unlock"]
  /\ UNCHANGED <<stt_process, lock, op, origin, child, proc, killReq, menu,
                 broadcasts, quitPc, quitChild, last>>

\* ---------------------------------------------------------------- return
\* A task has ended: its future, with the command's result, is dropped.
Finished(t) ==
  /\ pc' = [pc EXCEPT ![t] = "done"]
  /\ op' = [op EXCEPT ![t] = "none"]
  /\ origin' = [origin EXCEPT ![t] = "none"]
  /\ result' = [result EXCEPT ![t] = NoResult]

\* Mutant of Unlock: the guard is leaked (mem::forget), the Mutex stays locked.
UnlockKeepsLock(t) ==
  /\ ~Exited
  /\ pc[t] = "unlock"
  /\ lock = t
  /\ child' = [child EXCEPT ![t] = None]
  /\ last' = [op |-> op[t], result |-> result[t],
               contended |-> (\E u \in Tasks : pc[u] = "lock")]
  /\ IF origin[t] = "frontend" \/ IsErr(result[t])
       THEN Finished(t)
       ELSE /\ pc' = [pc EXCEPT ![t] = "menu_start"]
            /\ UNCHANGED <<op, origin, result>>
  /\ UNCHANGED <<stt_process, lock, proc, killReq, menu, broadcasts, quitPc,
                 quitChild>>

\* Mutant of Unlock: the tray task goes on to the menu items and the
\* broadcast whatever the command returned.
UnlockNotifiesFailure(t) ==
  /\ ~Exited
  /\ pc[t] = "unlock"
  /\ lock = t
  /\ lock' = 0
  /\ child' = [child EXCEPT ![t] = None]
  /\ last' = [op |-> op[t], result |-> result[t],
               contended |-> (\E u \in Tasks : pc[u] = "lock")]
  /\ IF origin[t] = "frontend"
       THEN Finished(t)
       ELSE /\ pc' = [pc EXCEPT ![t] = "menu_start"]
            /\ UNCHANGED <<op, origin, result>>
  /\ UNCHANGED <<stt_process, proc, killReq, menu, broadcasts, quitPc, quitChild>>

\* The command returns: the guard (and a taken Child) goes out of scope.  A
\* front-end call hands its result to the caller and is finished.  A tray
\* task matches on the result: the Err arm only prints
\* (println!("Error starting STT: {}", e)) and the task is finished, the Ok
\* arm goes on to the menu items and the broadcast.
Unlock(t) ==
  /\ ~Exited
  /\ pc[t] = "unlock"
  /\ lock = t
  /\ lock' = 0
  /\ child' = [child EXCEPT ![t] = None]
  /\ last' = [op |-> op[t], result |-> result[t],
               contended |-> (\E u \in Tasks : pc[u] = "lock")]
  /\ IF origin[t] = "frontend" \/ IsErr(result[t])
       THEN Finished(t)
       ELSE /\ pc' = [pc EXCEPT ![t] = "menu_start"]
            /\ UNCHANGED <<op, origin, result>>
  /\ UNCHANGED <<stt_process, proc, killReq, menu, broadcasts, quitPc, quitChild>>

\* ---------------------------------------------------------------- tray task, after the command
\* get_item("start_stt").set_enabled(false | true)
TrayMenuStart(t) ==
  /\ ~Exited
  /\ pc[t] = "menu_start"
  /\ menu' = [menu EXCEPT !.start_stt = (op[t] = "stop")]
  /\ pc' = [pc EXCEPT ![t] = "menu_stop"]
  /\ UNCHANGED <<stt_process, lock, op, origin, child, result, proc, killReq,
                 broadcasts, quitPc, quitChild, last>>

\* get_item("stop_stt").set_enabled(true | false)
TrayMenuStop(t) ==
  /\ ~Exited
  /\ pc[t] = "menu_stop"
  /\ menu' = [menu EXCEPT !.stop_stt = (op[t] = "start")]
  /\ pc' = [pc EXCEPT ![t] = "emit"]
  /\ UNCHANGED <<stt_process, lock, op, origin, child, result, proc, killReq,
                 broadcasts, quitPc, quitChild, last>>

\* app_handle.emit_all("stt_status", true | false)
TrayEmit(t) ==
  /\ ~Exited
  /\ pc[t] = "emit"
  /\ broadcasts' = Append(broadcasts, op[t] = "start")
  /\ Finished(t)
  /\ UNCHANGED <<stt_process, lock, child, proc, killReq, menu, quitPc,
                 quitChild, last>>

\* ---------------------------------------------------------------- tray "quit"
\* A click on the tray item quit: the handler starts on the event thread.
QuitClick ==
  /\ quitPc = "idle"
  /\ quitPc' = "lock"
  /\ UNCHANGED <<stt_process, lock, pc, op, origin, child, result, proc,
                 killReq, menu, broadcasts, quitChild, last>>

\* Mutant of QuitLock: the handler goes for the slot without waiting for the
\* Mutex.
QuitLockNoWait ==
  /\ quitPc = "lock"
  /\ lock' = QuitId
  /\ quitPc' = "take"
  /\ UNCHANGED <<stt_process, pc, op, origin, child, result, proc, killReq,
                 menu, broadcasts, quitChild, last>>

\* let mut process_guard = state.stt_process.lock().unwrap();
QuitLock ==
  /\ quitPc = "lock"
  /\ lock = 0
  /\ lock' = QuitId
  /\ quitPc' = "take"
  /\ UNCHANGED <<stt_process, pc, op, origin, child, result, proc, killReq,
                 menu, broadcasts, quitChild, last>>

\* if let Some(mut child) = process_guard.take()
QuitTake ==
  /\ quitPc = "take"
  /\ stt_process' = None
  /\ quitChild' = stt_process
  /\ quitPc' = IF IsSome(stt_process) THEN "kill" ELSE "exit"
  /\ UNCHANGED <<lock, pc, op, origin, child, result, proc, killReq, menu,
                 broadcasts, last>>

\* let _ = child.kill();
QuitKill ==
  /\ quitPc = "kill"
  /\ killReq' = [killReq EXCEPT ![quitChild] = @ + 1]
  /\ \E ok \in BOOLEAN : proc' = Killed(quitChild, ok)
  /\ quitPc' = "exit"
  /\ UNCHANGED <<stt_process, lock, pc, op, origin, child, result, menu,
                 broadcasts, quitChild, last>>

\* std::process::exit(0), the guard still held
QuitExit ==
  /\ quitPc = "exit"
  /\ quitPc' = "exited"
  /\ UNCHANGED <<stt_process, lock, pc, op, origin, child, result, proc,
                 killReq, menu, broadcasts, quitChild, last>>

\* ---------------------------------------------------------------- environment
\* The daemon process ends on its own; the supervisor is not told.
ProcExit(p) ==
  /\ proc[p] = "alive"
  /\ proc' = [proc EXCEPT ![p] = "dead"]
  /\ UNCHANGED <<stt_process, lock, pc, op, origin, child, result, killReq,
                 menu, broadcasts, quitPc, quitChild, last>>

Next ==
  \/ \E o \in {"start", "stop"} : TrayClick(o)
  \/ \E o \in {"start", "stop", "status"} : Invoke(o)
  \/ \E t \in Tasks : Lock(t)
  \/ \E t \in Tasks : StartCheck(t)
  \/ \E t \in Tasks : StartSpawn(t)
  \/ \E t \in Tasks : StartStore(t)
  \/ \E t \in Tasks : StopTake(t)
  \/ \E t \in Tasks : StopKill(t)
  \/ \E t \in Tasks : StatusRead(t)
  \/ \E t \in Tasks : Unlock(t)
  \/ \E t \in Tasks : TrayMenuStart(t)
  \/ \E t \in Tasks : TrayMenuStop(t)
  \/ \E t \in Tasks : TrayEmit(t)
  \/ QuitClick
  \/ QuitLock
  \/ QuitTake
  \/ QuitKill
  \/ QuitExit
  \/ \E p \in Pids : ProcExit(p)

Spec == Init /\ [][Next]_vars

\* ================================================================ properties
SpawnFailures == {SpawnFailure(e) : e \in SpawnErrors}
TerminationFailures == {TerminationFailure(e) : e \in KillErrors}

\* Task t runs command o and has its result, the guard not yet dropped: the
\* latest critical section before its own is the one `last` describes.
Returning(t, o) == op[t] = o /\ pc[t] = "unlock"

\* Handles the supervisor holds or is about to hold: the slot's, and the Child
\* a start has spawned and not stored yet.
Handles == {p \in Pids : stt_process = p \/ (\E t \in Tasks : pc[t] = "store" /\ child[t] = p)}

\* ---------------------------------------------------------------- C1
\* C1: in every reachable state, whatever the interleaving of start, stop,
\* status and quit, the supervisor holds at most one handle, and a start that
\* is past its is_some() test (about to spawn, or about to store the Child it
\* spawned) finds the slot empty: it never spawns or overwrites while a handle
\* is present.
C1_AtMostOneHandle ==
  /\ Cardinality(Handles) <= 1
  /\ \A t \in Tasks : pc[t] \in {"spawn", "store"} => stt_process = None

\* A start is at its test with a handle present while quit waits for the lock
\* and a stop of another task is under way as well.
C1_Witness ==
  /\ IsSome(stt_process)
  /\ \E t \in Tasks : op[t] = "start" /\ pc[t] = "check"
  /\ \E t \in Tasks : op[t] = "stop" /\ pc[t] = "lock"
  /\ quitPc = "lock"

\* ---------------------------------------------------------------- C2
\* C2 as stated: of two start() calls racing from Stopped (the first of them
\* found the slot empty, the second was already waiting for the lock when the
\* first left), the first succeeds and the second fails with AlreadyRunning.
C2_Original ==
  \A t \in Tasks :
    (Returning(t, "start") /\ last.op = "start" /\ last.contended
       /\ last.result # Err(MsgAlreadyRunning))
      => (last.result = Ok(MsgStarted) /\ result[t] = Err(MsgAlreadyRunning))

\* C2 amended: of two start() calls whose critical sections follow one
\* another from Stopped, the second fails with AlreadyRunning exactly when the
\* first succeeded, so that exactly one succeeds when process creation does
\* not fail; after a first start whose spawn failed (SpawnFailure) the second
\* is not rejected with AlreadyRunning: it succeeds or reports its own
\* SpawnFailure.  Never do both succeed.
C2_ExactlyOneUnlessSpawnFails ==
  \A t \in Tasks :
    (Returning(t, "start") /\ last.op = "start"
       /\ last.result # Err(MsgAlreadyRunning))
      => /\ last.result \in {Ok(MsgStarted)} \cup SpawnFailures
         /\ last.result = Ok(MsgStarted) <=> result[t] = Err(MsgAlreadyRunning)
         /\ last.result \in SpawnFailures
              => result[t] \in {Ok(MsgStarted)} \cup SpawnFailures

\* Two starts raced: the one returning was waiting for the lock while the
\* other, which succeeded, was in its critical section.
C2_Witness ==
  \E t \in Tasks :
    /\ Returning(t, "start")
    /\ result[t] = Err(MsgAlreadyRunning)
    /\ last.op = "start" /\ last.contended /\ last.result = Ok(MsgStarted)
    /\ \A u \in Tasks \ {t} : pc[u] \in {"idle", "done", "menu_start", "menu_stop", "emit"}

\* ---------------------------------------------------------------- C3
\* The step of task t away from position at.
Leaves(t, at) == pc[t] = at /\ pc'[t] # at

\* C3: a start() that finds a handle in the slot when it tests it returns
\* Err("STT daemon is already running") without going through spawn (no
\* process is created, it holds no Child), and the slot keeps the very handle
\* it held, from the test until the command returns.
C3_AlreadyRunning ==
  /\ [][\A t \in Tasks :
          (Leaves(t, "check") /\ IsSome(stt_process))
            => /\ pc'[t] = "unlock"
               /\ result'[t] = Err(MsgAlreadyRunning)
               /\ UNCHANGED <<stt_process, proc, killReq, child>>]_vars
  /\ [][\A t \in Tasks :
          (Leaves(t, "unlock") /\ op[t] = "start"
             /\ result[t] = Err(MsgAlreadyRunning))
            => /\ IsSome(stt_process)
               /\ UNCHANGED <<stt_process, proc, killReq>>]_vars
  /\ [](\A t \in Tasks :
          (Returning(t, "start") /\ result[t] = Err(MsgAlreadyRunning))
            => (IsSome(stt_process) /\ child[t] = None))

\* start() then start() again: the second returns AlreadyRunning and the slot
\* still holds the process the first one spawned.
C3_Witness ==
  \E t \in Tasks :
    /\ Returning(t, "start")
    /\ result[t] = Err(MsgAlreadyRunning)
    /\ last.op = "start" /\ last.result = Ok(MsgStarted) /\ ~last.contended
    /\ stt_process = 1 /\ proc[2] = "unspawned"

\* ---------------------------------------------------------------- C4
\* C4: a stop() that finds the slot empty when it takes from it returns
\* Err("STT daemon is not running") without going through kill (no kill
\* request is issued, it holds no Child), and the slot is empty until the
\* command returns.
C4_NotRunning ==
  /\ [][\A t \in Tasks :
          (Leaves(t, "take") /\ ~IsSome(stt_process))
            => /\ pc'[t] = "unlock"
               /\ result'[t] = Err(MsgNotRunning)
               /\ UNCHANGED <<stt_process, proc, killReq, child>>]_vars
  /\ [][\A t \in Tasks :
          (Leaves(t, "unlock") /\ op[t] = "stop"
             /\ result[t] = Err(MsgNotRunning))
            => /\ ~IsSome(stt_process)
               /\ UNCHANGED <<stt_process, proc, killReq>>]_vars
  /\ [](\A t \in Tasks :
          (Returning(t, "stop") /\ result[t] = Err(MsgNotRunning))
            => (~IsSome(stt_process) /\ child[t] = None))

\* stop() on the fresh Stopped state: nothing was spawned, no command ran
\* before it, and it returns NotRunning.
C4_Witness ==
  \E t \in Tasks :
    /\ Returning(t, "stop")
    /\ result[t] = Err(MsgNotRunning)
    /\ last = NoLast
    /\ \A p \in Pids : proc[p] = "unspawned" /\ killReq[p] = 0

\* ---------------------------------------------------------------- C5
\* C5: status() always returns Ok, with true exactly when the slot holds a
\* handle at the moment it reads it, and leaves the slot as it is; the slot
\* loses a handle only by the take() of a stop or of quit, never because the
\* process exited, so status() keeps answering true for a dead process.
C5_StatusIsHandlePresent ==
  /\ [][\A t \in Tasks :
          Leaves(t, "read")
            => /\ result'[t] = Ok(IsSome(stt_process))
               /\ stt_process' = stt_process]_vars
  /\ [][\A t \in Tasks :
          (Leaves(t, "unlock") /\ op[t] = "status")
            => /\ result[t] = Ok(IsSome(stt_process))
               /\ stt_process' = stt_process]_vars
  /\ [][(IsSome(stt_process) /\ stt_process' # stt_process)
          => \/ \E t \in Tasks : Leaves(t, "take") /\ op[t] = "stop"
             \/ quitPc = "take" /\ quitPc' # "take"]_vars
  /\ [](\A t \in Tasks :
          Returning(t, "status") => result[t] = Ok(IsSome(stt_process)))

\* status() answers true for a handle whose process has exited on its own
\* (dead without any kill request).
C5_Witness ==
  \E t \in Tasks :
    /\ Returning(t, "status")
    /\ result[t] = Ok(TRUE)
    /\ IsSome(stt_process)
    /\ proc[stt_process] = "dead" /\ killReq[stt_process] = 0

\* ---------------------------------------------------------------- C6
\* C6: when the spawn of a start() succeeds, the command stores exactly the
\* Child it spawned and returns Ok("STT daemon started successfully"), the
\* slot holding a handle when it returns; and a status() whose critical
\* section comes right after such a start returns true.
C6_StartThenStatus ==
  /\ [][\A t \in Tasks :
          Leaves(t, "store")
            => /\ child[t] # None
               /\ stt_process' = child[t]
               /\ result'[t] = Ok(MsgStarted)
               /\ pc'[t] = "unlock"]_vars
  /\ [](\A t \in Tasks :
          (Returning(t, "start") /\ result[t] = Ok(MsgStarted))
            => (IsSome(stt_process) /\ proc[stt_process] # "unspawned"))
  /\ [](\A t \in Tasks :
          (Returning(t, "status") /\ last.op = "start" /\ last.result = Ok(MsgStarted))
            => result[t] = Ok(TRUE))

\* A status() right after the first successful start, answering true.
C6_Witness ==
  \E t \in Tasks :
    /\ Returning(t, "status")
    /\ last.op = "start" /\ last.result = Ok(MsgStarted)
    /\ result[t] = Ok(TRUE)
    /\ stt_process = 1 /\ killReq[1] = 0

\* ---------------------------------------------------------------- C7
\* A stop() whose critical section comes right after that of a successful
\* start().
StopAfterStart(t) ==
  Returning(t, "stop") /\ last.op = "start" /\ last.result = Ok(MsgStarted)

\* C7 as stated: the stop() that follows a successful start() has issued the
\* kill to the process it took, has cleared the slot and returns
\* Ok("STT daemon stopped successfully").
C7_Original ==
  \A t \in Tasks :
    StopAfterStart(t)
      => /\ child[t] # None /\ killReq[child[t]] = 1
         /\ stt_process = None
         /\ result[t] = Ok(MsgStopped)

\* C7 amended: the stop() that follows a successful start() takes the held
\* Child out of the slot, issues one kill to that process and clears the slot;
\* it returns success when the kill call returns Ok and TerminationFailure
\* when the kill call errors; in both cases a status() that follows returns
\* false.
C7_StartThenStop ==
  /\ [][\A t \in Tasks :
          (Leaves(t, "take") /\ IsSome(stt_process))
            => /\ child'[t] = stt_process
               /\ stt_process' = None
               /\ pc'[t] = "kill"]_vars
  /\ [][\A t \in Tasks :
          Leaves(t, "kill")
            => /\ killReq' = [killReq EXCEPT ![child[t]] = @ + 1]
               /\ \/ result'[t] = Ok(MsgStopped) /\ proc'[child[t]] = "dead"
                  \/ result'[t] \in TerminationFailures /\ proc' = proc]_vars
  /\ [](\A t \in Tasks :
          StopAfterStart(t)
            => /\ child[t] # None /\ killReq[child[t]] = 1
               /\ stt_process = None
               /\ result[t] \in {Ok(MsgStopped)} \cup TerminationFailures)
  /\ [](\A t \in Tasks :
          (Returning(t, "status") /\ last.op = "stop")
            => result[t] = Ok(FALSE))

\* start(), stop(), status(): the status() after a stop that returned success
\* for the first process spawned answers false.
C7_Witness ==
  \E t \in Tasks :
    /\ Returning(t, "status")
    /\ last.op = "stop" /\ last.result = Ok(MsgStopped)
    /\ result[t] = Ok(FALSE)
    /\ killReq[1] = 1 /\ proc[1] = "dead" /\ proc[2] = "unspawned"

\* ---------------------------------------------------------------- C8
\* C8: when the spawn of a start() fails, the command returns
\* Err("Failed to start STT daemon: <os error>"), no process was created and
\* the slot stays empty until it returns; the start() that follows is not
\* rejected with AlreadyRunning.
C8_SpawnFailure ==
  /\ [][\A t \in Tasks :
          (Leaves(t, "spawn") /\ pc'[t] # "store")
            => /\ pc'[t] = "unlock"
               /\ result'[t] \in SpawnFailures
               /\ stt_process = None
               /\ UNCHANGED <<stt_process, proc, child>>]_vars
  /\ [](\A t \in Tasks :
          (Returning(t, "start") /\ IsErr(result[t])
             /\ result[t] # Err(MsgAlreadyRunning))
            => /\ result[t] \in SpawnFailures
               /\ stt_process = None
               /\ child[t] = None)
  /\ [](\A t \in Tasks :
          (Returning(t, "start") /\ last.op = "start" /\ last.result \in SpawnFailures)
            => result[t] # Err(MsgAlreadyRunning))

\* A start() whose spawn failed, then a start() that succeeds.
C8_Witness ==
  \E t \in Tasks :
    /\ Returning(t, "start")
    /\ last.op = "start" /\ last.result \in SpawnFailures
    /\ result[t] = Ok(MsgStarted)
    /\ stt_process = 1

\* ---------------------------------------------------------------- C9
\* C9: a stop() that took a handle and whose kill call errored returns
\* Err("Failed to stop STT daemon: <os error>") with the slot cleared all the
\* same; the status() that follows returns false and the start() that
\* follows is not rejected with AlreadyRunning (it goes on to spawn).
C9_KillErrorClearsHandle ==
  /\ \A t \in Tasks :
       (Returning(t, "stop") /\ IsErr(result[t])
          /\ result[t] # Err(MsgNotRunning))
         => /\ result[t] \in TerminationFailures
            /\ stt_process = None
            /\ child[t] # None /\ killReq[child[t]] = 1
  /\ \A t \in Tasks :
       (Returning(t, "status") /\ last.op = "stop"
          /\ last.result \in TerminationFailures)
         => result[t] = Ok(FALSE)
  /\ \A t \in Tasks :
       (Returning(t, "start") /\ last.op = "stop"
          /\ last.result \in TerminationFailures)
         => result[t] \in {Ok(MsgStarted)} \cup SpawnFailures

\* start(), a stop() whose kill errored and left the process alive, then a
\* start() that is accepted and spawns a second process.
C9_Witness ==
  \E t \in Tasks :
    /\ Returning(t, "start")
    /\ last.op = "stop" /\ last.result \in TerminationFailures
    /\ result[t] = Ok(MsgStarted)
    /\ stt_process = 2 /\ proc[1] = "alive" /\ killReq[1] = 1

\* ---------------------------------------------------------------- C10
\* Positions inside the critical section of a command.
InCritical == {"check", "spawn", "store", "take", "kill", "read", "unlock"}

\* C10: the quit handler works under the lock the commands use (no command
\* is in its critical section while quit is in its own); it takes the handle
\* the slot holds, issues one kill to that process and leaves the slot empty
\* before the exit; once the application has exited nothing of it changes any
\* more: no task moves, and the slot, the results, the kill requests, the
\* menu items and the broadcasts stay as they are, also with tray tasks that
\* had not finished.
C10_QuitKillsAndExits ==
  /\ [](quitPc \in {"take", "kill", "exit", "exited"}
          => /\ lock = QuitId
             /\ \A t \in Tasks : pc[t] \notin InCritical)
  /\ [][(quitPc = "take" /\ quitPc' # "take")
          => /\ quitChild' = stt_process
             /\ stt_process' = None
             /\ quitPc' = IF IsSome(stt_process) THEN "kill" ELSE "exit"]_vars
  /\ [][(quitPc = "kill" /\ quitPc' # "kill")
          => /\ killReq' = [killReq EXCEPT ![quitChild] = @ + 1]
             /\ quitPc' = "exit"]_vars
  /\ [](quitPc \in {"exit", "exited"}
          => /\ stt_process = None
             /\ quitChild # None => killReq[quitChild] = 1)
  /\ [][quitPc = "exited"
          => UNCHANGED <<stt_process, lock, pc, op, origin, child, result,
                         killReq, menu, broadcasts, quitPc, quitChild, last>>]_vars

\* The application has exited after killing the held process, while a tray
\* task that started it had not yet updated the menu or broadcast.
C10_Witness ==
  /\ quitPc = "exited"
  /\ quitChild # None
  /\ killReq[quitChild] = 1
  /\ \E t \in Tasks : origin[t] = "tray" /\ pc[t] \in {"menu_start", "menu_stop", "emit"}
  /\ \E t \in Tasks : pc[t] = "lock"

\* ---------------------------------------------------------------- C11
\* Positions of a tray task after its command returned Ok.
Notifying == {"menu_start", "menu_stop", "emit"}

\* C11: the menu items and the stt_status broadcasts change only in the
\* steps of a tray task whose command returned Ok: after a successful start
\* it disables start_stt, then enables stop_stt, then broadcasts true; after
\* a successful stop it enables start_stt, then disables stop_stt, then
\* broadcasts false.  The return of a command changes neither, and only a
\* tray task with an Ok result goes on to those steps: a tray task whose
\* command failed and every front-end call end at the return.
C11_NotifyOnlyTraySuccess ==
  /\ [](\A t \in Tasks :
          pc[t] \in Notifying
            => /\ origin[t] = "tray"
               /\ op[t] \in {"start", "stop"}
               /\ result[t] = IF op[t] = "start" THEN Ok(MsgStarted) ELSE Ok(MsgStopped))
  /\ [][\A t \in Tasks :
          Leaves(t, "unlock")
            => /\ UNCHANGED <<menu, broadcasts>>
               /\ pc'[t] = IF origin[t] = "tray" /\ ~IsErr(result[t])
                             THEN "menu_start" ELSE "done"]_vars
  /\ [][(menu' # menu \/ broadcasts' # broadcasts)
          => \E t \in Tasks : pc[t] \in Notifying /\ pc'[t] # pc[t]]_vars
  /\ [][\A t \in Tasks :
          Leaves(t, "menu_start")
            => /\ menu' = [menu EXCEPT !.start_stt = (op[t] = "stop")]
               /\ broadcasts' = broadcasts
               /\ pc'[t] = "menu_stop"]_vars
  /\ [][\A t \in Tasks :
          Leaves(t, "menu_stop")
            => /\ menu' = [menu EXCEPT !.stop_stt = (op[t] = "start")]
               /\ broadcasts' = broadcasts
               /\ pc'[t] = "emit"]_vars
  /\ [][\A t \in Tasks :
          Leaves(t, "emit")
            => /\ broadcasts' = Append(broadcasts, op[t] = "start")
               /\ menu' = menu
               /\ pc'[t] = "done"]_vars

\* A tray start and then a tray stop have succeeded and notified, and a
\* front-end call has since returned without touching menu or broadcasts.
C11_Witness ==
  /\ broadcasts = <<TRUE, FALSE>>
  /\ menu = [start_stt |-> TRUE, stop_stt |-> FALSE]
  /\ last.op = "status"
  /\ \A t \in Tasks : pc[t] = "done"

\* ---------------------------------------------------------------- C12
\* No command is in flight (none waiting, none in its critical section, no
\* tray task still notifying) and the quit handler has not started.
Quiescent == quitPc = "idle" /\ \A t \in Tasks : pc[t] \in {"idle", "done"}

\* C12 as stated: whenever no operation is in flight, start_stt is disabled
\* exactly when a handle is held and stop_stt is disabled exactly when no
\* handle is held.
C12_MenuAgrees ==
  Quiescent
    => /\ ~menu.start_stt <=> IsSome(stt_process)
       /\ ~menu.stop_stt <=> ~IsSome(stt_process)

\* ---------------------------------------------------------------- C13
\* The runs in which start and stop are triggered from the tray only: the
\* front end calls nothing but get_stt_status.
NextTray ==
  \/ \E o \in {"start", "stop"} : TrayClick(o)
  \/ \E o \in {"status"} : Invoke(o)
  \/ \E t \in Tasks : Lock(t)
  \/ \E t \in Tasks : StartCheck(t)
  \/ \E t \in Tasks : StartSpawn(t)
  \/ \E t \in Tasks : StartStore(t)
  \/ \E t \in Tasks : StopTake(t)
  \/ \E t \in Tasks : StopKill(t)
  \/ \E t \in Tasks : StatusRead(t)
  \/ \E t \in Tasks : Unlock(t)
  \/ \E t \in Tasks : TrayMenuStart(t)
  \/ \E t \in Tasks : TrayMenuStop(t)
  \/ \E t \in Tasks : TrayEmit(t)
  \/ QuitClick
  \/ QuitLock
  \/ QuitTake
  \/ QuitKill
  \/ QuitExit
  \/ \E p \in Pids : ProcExit(p)

SpecTray == Init /\ [][NextTray]_vars

\* C13 as stated: with start and stop triggered from the tray only, whenever
\* no tray operation is in flight the payload of the most recent stt_status
\* broadcast is the value status() would return.
C13_LastBroadcastIsStatus ==
  (Quiescent /\ broadcasts # <<>>)
    => broadcasts[Len(broadcasts)] = IsSome(stt_process)

\* ---------------------------------------------------------------- C14
\* Commands and the quit handler that are inside their critical section.
Inside ==
  {t \in Tasks : pc[t] \in InCritical}
    \cup (IF quitPc \in {"take", "kill", "exit", "exited"} THEN {QuitId} ELSE {})

\* C14: at most one of start, stop, status and the quit handler is inside
\* its critical section, and it is the owner of the lock, from its test of
\* the slot to its return; the slot changes only in a step of the one that is
\* inside, so that what a start or a stop found in the slot is still there
\* when it updates it (a start that is about to spawn or to store still has an
\* empty slot, a stop that is about to kill has left it empty).
C14_MutualExclusion ==
  /\ [](/\ Cardinality(Inside) <= 1
        /\ \A x \in Inside : lock = x
        /\ lock # 0 => lock \in Inside
        /\ \A t \in Tasks : pc[t] \in {"spawn", "store", "kill"} => stt_process = None)
  /\ [][stt_process' # stt_process
          => \/ \E t \in Tasks : lock = t /\ pc[t] \in InCritical /\ pc'[t] # pc[t]
             \/ lock = QuitId /\ quitPc = "take" /\ quitPc' # quitPc]_vars
  /\ [][\A x \in Inside : lock' # x => (x \in Tasks /\ Leaves(x, "unlock"))]_vars

\* A start is between its test and its update (the process is spawned, the
\* Child not stored yet) while a stop and the quit handler wait for the lock.
C14_Witness ==
  /\ \E t \in Tasks : op[t] = "start" /\ pc[t] = "store" /\ lock = t
  /\ \E t \in Tasks : op[t] = "stop" /\ pc[t] = "lock"
  /\ quitPc = "lock"

\* ---------------------------------------------------------------- C15
\* The runs without a quit.  The daemon ending on its own is left to Spec:
\* no step of a command waits for it or reads whether the process still
\* runs (kill() returns Ok or Err either way), so it changes nothing about
\* which command can take its next step.
NextNoQuit ==
  \/ \E o \in {"start", "stop"} : TrayClick(o)
  \/ \E o \in {"start", "stop", "status"} : Invoke(o)
  \/ \E t \in Tasks : Lock(t)
  \/ \E t \in Tasks : StartCheck(t)
  \/ \E t \in Tasks : StartSpawn(t)
  \/ \E t \in Tasks : StartStore(t)
  \/ \E t \in Tasks : StopTake(t)
  \/ \E t \in Tasks : StopKill(t)
  \/ \E t \in Tasks : StatusRead(t)
  \/ \E t \in Tasks : Unlock(t)
  \/ \E t \in Tasks : TrayMenuStart(t)
  \/ \E t \in Tasks : TrayMenuStop(t)
  \/ \E t \in Tasks : TrayEmit(t)

\* The steps of the task t: the scheduler runs every task that can run, the
\* Mutex hands the lock to a waiting task once it is free, and the OS calls
\* spawn() and kill() return.
TaskStep(t) ==
  \/ Lock(t)
  \/ StartCheck(t)
  \/ StartSpawn(t)
  \/ StartStore(t)
  \/ StopTake(t)
  \/ StopKill(t)
  \/ StatusRead(t)
  \/ Unlock(t)
  \/ TrayMenuStart(t)
  \/ TrayMenuStop(t)
  \/ TrayEmit(t)

SpecLive == Init /\ [][NextNoQuit]_vars /\ \A t \in Tasks : WF_vars(TaskStep(t))

\* C15: without a quit and under fair scheduling, every command that has
\* been invoked eventually has returned its result, however many commands
\* from the tray and the front end are in flight: from some point on no
\* command waits for the lock or is still in its critical section, so none
\* waits for the lock for ever.  (A command is invoked once and never
\* re-enters, so this is the same as each invoked command leading to its
\* own return.)
C15_EveryCallReturns ==
  <>[](\A t \in Tasks : pc[t] \notin ({"lock"} \cup InCritical))

\* A stop that had to wait for the lock while another command was in its
\* critical section has got the lock and its result; every other command
\* has returned and ended.
C15_Witness ==
  \E t \in Tasks :
    /\ Returning(t, "stop")
    /\ last.contended
    /\ \A u \in Tasks \ {t} : pc[u] = "done"

\* ---------------------------------------------------------------- C16
\* The places that hold the handle p: the slot, a start about to store it, a
\* stop or the quit handler about to kill it.
Holders(p) ==
  (IF stt_process = p THEN {0} ELSE {})
    \cup {t \in Tasks : pc[t] \in {"store", "kill"} /\ child[t] = p}
    \cup (IF quitPc = "kill" /\ quitChild = p THEN {QuitId} ELSE {})

\* C16: each handle receives at most one kill request over all stops and
\* the quit.  A handle is in one place at a time and in none once its kill
\* has been requested; only the stop or quit that took the handle out of the
\* slot requests its kill, once.  A stop that finds the slot empty returns
\* NotRunning and requests no kill; so of the stops that run with no start
\* between them every one after the first returns NotRunning, and a quit
\* that comes after a stop finds nothing to kill.
C16_OneKillPerHandle ==
  /\ [](/\ \A p \in Pids : killReq[p] <= 1
        /\ \A p \in Pids : Cardinality(Holders(p)) <= 1
        /\ \A p \in Pids : killReq[p] = 1 => Holders(p) = {}
        /\ \A t \in Tasks :
             (Returning(t, "stop") /\ last.op = "stop")
               => result[t] = Err(MsgNotRunning)
        /\ (quitPc \in {"kill", "exit", "exited"} /\ last.op = "stop")
             => quitChild = None)
  /\ [][\A t \in Tasks :
          (op[t] = "stop" /\ Leaves(t, "take"))
            => IF IsSome(stt_process)
                 THEN /\ pc'[t] = "kill"
                      /\ child'[t] = stt_process
                      /\ stt_process' = None
                      /\ killReq' = killReq
                 ELSE /\ pc'[t] = "unlock"
                      /\ result'[t] = Err(MsgNotRunning)
                      /\ killReq' = killReq]_vars
  /\ [][killReq' # killReq
          => \E p \in Pids :
               /\ killReq' = [killReq EXCEPT ![p] = 1]
               /\ killReq[p] = 0
               /\ \/ \E t \in Tasks :
                       /\ op[t] = "stop" /\ Leaves(t, "kill")
                       /\ child[t] = p
                       /\ ~IsErr(result'[t]) \/ result'[t] \in TerminationFailures
                  \/ quitPc = "kill" /\ quitPc' = "exit" /\ quitChild = p]_vars

\* Two stops met on a running daemon: the first took the handle, requested
\* the one kill and returned Ok while the second waited for the lock; the
\* second has found the slot empty and returns NotRunning.
C16_Witness ==
  \E t \in Tasks :
    /\ Returning(t, "stop")
    /\ result[t] = Err(MsgNotRunning)
    /\ last.op = "stop" /\ last.result = Ok(MsgStopped) /\ last.contended
    /\ \A u \in Tasks \ {t} : pc[u] = "done"
    /\ \E p \in Pids : killReq[p] = 1

\* ---------------------------------------------------------------- C17
\* The daemon processes that still run: spawned, not ended on their own, not
\* ended by a kill that took effect.
Alive == {p \in Pids : proc[p] = "alive"}

\* C17: at any time at most one daemon process spawned by the supervisor is
\* still alive, for every sequence of starts and stops, those whose kill()
\* errors included.
C17_AtMostOneAlive == Cardinality(Alive) <= 1

\* ---------------------------------------------------------------- C18
\* C18: when the application has exited through the quit handler, every
\* daemon process that was ever spawned has had a kill request, from a stop
\* or from the quit itself; the quit handler gets the lock only when no start
\* is between its spawn and the storing of the handle, and from then on no
\* start holds a handle that is on its way to the slot.
C18_AllKilledAtExit ==
  /\ Exited => \A p \in Pids : proc[p] # "unspawned" => killReq[p] >= 1
  /\ quitPc \in {"take", "kill", "exit", "exited"}
       => \A t \in Tasks : pc[t] \notin {"spawn", "store"}
  /\ quitPc \in {"exit", "exited"}
       => /\ stt_process = None
          /\ \A p \in Pids : proc[p] # "unspawned" => killReq[p] >= 1

\* The application has exited after two daemons were spawned: a stop
\* requested the kill of the first, the quit handler that of the second,
\* which a start had stored while the quit handler waited for the lock.
C18_Witness ==
  /\ Exited
  /\ quitChild = 2
  /\ killReq[1] = 1 /\ killReq[2] = 1
  /\ last.op = "start" /\ last.result = Ok(MsgStarted)

====
